---- MODULE Spec2Model ----
(***************************************************************************)
(* A model of src/main.py: the HTTP handlers of the restaurant backend     *)
(* (reservations, diagnostics, chat) and the rule-based responder.         *)
(*                                                                         *)
(* Python str values are TLA+ strings; Len, \o and SubSeq act on them      *)
(* character by character.  Python's None is the value None below.         *)
(***************************************************************************)
EXTENDS Integers, Sequences, FiniteSets, TLC

VARIABLES
    store,      \* the documents of the "reservation" collection, in insertion order
    db,         \* the imported handle `db`: "none" (db is None) or "handle"
    storeUp,    \* whether the store server currently answers
    urlSet,     \* whether the DATABASE_URL environment variable is set
    others,     \* how many collections other than "reservation" the database holds
    req,        \* the request being answered ([endpoint |-> "idle"] when none)
    resp        \* the response to req, until the client takes it

vars == <<store, db, storeUp, urlSet, others, req, resp>>

None == "None"

(***************************************************************************)
(* Bounds of the model.                                                    *)
(***************************************************************************)
MaxDocs == 2        \* reservations the store may hold
MaxOthers == 11     \* collections beside "reservation"
MaxMsgs == 2        \* messages of a multi-message chat request

(***************************************************************************)
(* Python string operations used by the code.                              *)
(***************************************************************************)
UPPER == "ABCDEFGHIJKLMNOPQRSTUVWXYZ"
LOWER == "abcdefghijklmnopqrstuvwxyz"
WHITESPACE == {" ", "\t", "\n", "\r", "\f"}

\* c.lower() for one character
LowerChar(c) ==
    IF \E i \in 1..Len(UPPER) : SubSeq(UPPER, i, i) = c
    THEN LET i == CHOOSE i \in 1..Len(UPPER) : SubSeq(UPPER, i, i) = c
         IN  SubSeq(LOWER, i, i)
    ELSE c

\* s.lower()
RECURSIVE Lower(_)
Lower(s) ==
    IF Len(s) = 0 THEN ""
    ELSE LowerChar(SubSeq(s, 1, 1)) \o Lower(SubSeq(s, 2, Len(s)))

\* s.lstrip(), s.rstrip(), s.strip()
RECURSIVE LStrip(_)
LStrip(s) ==
    IF Len(s) > 0 /\ SubSeq(s, 1, 1) \in WHITESPACE
    THEN LStrip(SubSeq(s, 2, Len(s)))
    ELSE s

RECURSIVE RStrip(_)
RStrip(s) ==
    IF Len(s) > 0 /\ SubSeq(s, Len(s), Len(s)) \in WHITESPACE
    THEN RStrip(SubSeq(s, 1, Len(s) - 1))
    ELSE s

Strip(s) == LStrip(RStrip(s))

\* k in t  (substring test)
Contains(t, k) ==
    \E i \in 1..(Len(t) - Len(k) + 1) : SubSeq(t, i, i + Len(k) - 1) = k

\* any(k in t for k in keys)
AnyIn(keys, t) == \E j \in 1..Len(keys) : Contains(t, keys[j])

\* s[:n]
Prefix(s, n) == SubSeq(s, 1, IF n < Len(s) THEN n ELSE Len(s))

(***************************************************************************)
(* The rule-based responder, simple_recommender.                           *)
(***************************************************************************)
WINE_KEYS == <<"wine", "pairing", "sommelier">>
STEAK_KEYS == <<"steak", "beef", "wagyu">>
VEGAN_KEYS == <<"vegan", "vegetarian">>
DESSERT_KEYS == <<"dessert", "sweet", "chocolate">>
BOOK_KEYS == <<"book", "reserve", "table", "reservation">>

WINE_SUGGESTIONS == <<"Grand Cru Burgundy 2015", "Vintage Champagne Brut 2008">>
STEAK_SUGGESTION == "A5 Miyazaki Wagyu with black truffle jus"
VEGAN_SUGGESTION == "Charred Romanesco with almond velouté"
DESSERT_SUGGESTION == "72% Dark Chocolate Marquis with gold leaf"

WINE_REPLY == "Our sommelier recommends a Grand Cru Burgundy with rich mains or a vintage Champagne to open the evening."
STEAK_FRAGMENT == " Our signature A5 Wagyu is seared over binchotan and finished with truffle jus."
VEGAN_FRAGMENT == " We offer refined plant-forward courses like Charred Romanesco with almond velouté."
DESSERT_FRAGMENT == " For dessert, the Dark Chocolate Marquis adorned with gold leaf is exquisite."
BOOK_FRAGMENT == " I can book a table for you. Please share date, time, and party size."
DEFAULT_REPLY == "Welcome to Étoile Noire. Tell me what you enjoy (steak, vegan, wine) or say 'reserve' to book a table."

\* reply = (reply + " ").strip() + fragment
AppendFragment(reply, fragment) == Strip(reply \o " ") \o fragment

\* Each rule takes the lower-cased text t and the pair st of the reply and
\* the suggestions built so far, and gives the pair after the rule.
WineRule(t, st) ==
    IF AnyIn(WINE_KEYS, t)
    THEN [reply |-> WINE_REPLY,
          suggestions |-> Append(Append(st.suggestions, WINE_SUGGESTIONS[1]),
                                 WINE_SUGGESTIONS[2])]
    ELSE st

SteakRule(t, st) ==
    IF AnyIn(STEAK_KEYS, t)
    THEN [reply |-> AppendFragment(st.reply, STEAK_FRAGMENT),
          suggestions |-> Append(st.suggestions, STEAK_SUGGESTION)]
    ELSE st

\* VeganRule without its suggestions.append
VeganRule_NoSuggestion(t, st) ==
    IF AnyIn(VEGAN_KEYS, t)
    THEN [reply |-> AppendFragment(st.reply, VEGAN_FRAGMENT),
          suggestions |-> st.suggestions]
    ELSE st

VeganRule(t, st) ==
    IF AnyIn(VEGAN_KEYS, t)
    THEN [reply |-> AppendFragment(st.reply, VEGAN_FRAGMENT),
          suggestions |-> Append(st.suggestions, VEGAN_SUGGESTION)]
    ELSE st

DessertRule(t, st) ==
    IF AnyIn(DESSERT_KEYS, t)
    THEN [reply |-> AppendFragment(st.reply, DESSERT_FRAGMENT),
          suggestions |-> Append(st.suggestions, DESSERT_SUGGESTION)]
    ELSE st

\* BookRule as an alternative to the menu rules: only on an empty reply
BookRule_Exclusive(t, st) ==
    IF AnyIn(BOOK_KEYS, t) /\ st.reply = ""
    THEN [reply |-> AppendFragment(st.reply, BOOK_FRAGMENT),
          suggestions |-> st.suggestions]
    ELSE st

\* Reservation detection: the reply grows, the suggestions do not.
BookRule(t, st) ==
    IF AnyIn(BOOK_KEYS, t)
    THEN [reply |-> AppendFragment(st.reply, BOOK_FRAGMENT),
          suggestions |-> st.suggestions]
    ELSE st

\* DefaultRule testing for None, which the reply never is
DefaultRule_TestsNone(st) ==
    IF st.reply = None
    THEN [reply |-> DEFAULT_REPLY, suggestions |-> st.suggestions]
    ELSE st

\* if reply == "": reply = <the welcome sentence>
DefaultRule(st) ==
    IF st.reply = ""
    THEN [reply |-> DEFAULT_REPLY, suggestions |-> st.suggestions]
    ELSE st

simple_recommender(text) ==
    LET t == Lower(text)
        s0 == [reply |-> "", suggestions |-> <<>>]
        s1 == WineRule(t, s0)
        s2 == SteakRule(t, s1)
        s3 == VeganRule(t, s2)
        s4 == DessertRule(t, s3)
        s5 == BookRule(t, s4)
        s6 == DefaultRule(s5)
    IN  [reply |-> s6.reply,
         suggestions |-> s6.suggestions,
         maybe_reservation |-> None]

(***************************************************************************)
(* POST /api/chat.  A handler gives the response it sends; a response is   *)
(* [status, body] on success and [status, detail] for an HTTPException.    *)
(***************************************************************************)
\* [m.content for m in req.messages if m.role == "user"]
UserTexts(messages) ==
    LET users == SelectSeq(messages, LAMBDA m : m.role = "user")
    IN  [i \in 1..Len(users) |-> users[i].content]

\* chat_endpoint answering the last message whatever its role
chat_endpoint_LastMessage(messages) ==
    IF Len(messages) = 0
    THEN [status |-> 400, detail |-> "No messages provided"]
    ELSE [status |-> 200,
          body |-> simple_recommender(messages[Len(messages)].content)]

chat_endpoint(messages) ==
    IF Len(messages) = 0
    THEN [status |-> 400, detail |-> "No messages provided"]
    ELSE LET user_texts == UserTexts(messages)
             last_text == IF Len(user_texts) > 0
                          THEN user_texts[Len(user_texts)]
                          ELSE messages[Len(messages)].content
         IN  [status |-> 200, body |-> simple_recommender(last_text)]

(***************************************************************************)
(* Python values whose type the code converts: an identifier is either an  *)
(* ObjectId of the store or a str.                                         *)
(***************************************************************************)
ObjectId(n) == [type |-> "ObjectId", value |-> n]
PyStr(s) == [type |-> "str", value |-> s]

\* str(x): the hexadecimal text of an ObjectId, a str unchanged
str(x) ==
    IF x.type = "ObjectId"
    THEN PyStr("65f1c0de9a7b4e0012ab34" \o ToString(x.value))
    ELSE x

(***************************************************************************)
(* The document store adapter (database.py) and the canonical schema       *)
(* (schemas.py).  A call gives [raised |-> FALSE, ...] or the exception.   *)
(***************************************************************************)
StoreAvailable == db = "handle" /\ storeUp

StoreError ==
    IF db = "none"
    THEN "Database not available. Check DATABASE_URL and DATABASE_NAME environment variables."
    ELSE "localhost:27017: [Errno 111] Connection refused, server selection timed out"

\* db.list_collection_names()
list_collection_names ==
    IF storeUp
    THEN [raised |-> FALSE,
          value |-> (IF Len(store) > 0 THEN <<"reservation">> ELSE <<>>)
                    \o [i \in 1..others |-> "collection" \o ToString(i)]]
    ELSE [raised |-> TRUE, error |-> StoreError]

\* create_document(collection, record) -> id
create_document(data) ==
    IF StoreAvailable
    THEN LET oid == ObjectId(Len(store) + 1)
             doc == [k \in DOMAIN data \cup {"_id"} |->
                        IF k = "_id" THEN oid ELSE data[k]]
         IN  [raised |-> FALSE, value |-> str(oid), store |-> Append(store, doc)]
    ELSE [raised |-> TRUE, error |-> StoreError, store |-> store]

\* get_documents(collection, {}, limit): up to `limit` records
get_documents(limit) ==
    IF StoreAvailable
    THEN [raised |-> FALSE,
          value |-> SubSeq(store, 1, IF limit < Len(store) THEN limit ELSE Len(store))]
    ELSE [raised |-> TRUE, error |-> StoreError]

\* ReservationSchema(**data): the canonical shape, party_size in 1..20
ReservationSchema(data) ==
    IF data.party_size >= 1 /\ data.party_size <= 20
    THEN [raised |-> FALSE, value |-> data]
    ELSE [raised |-> TRUE, error |-> "party_size: out of range"]

(***************************************************************************)
(* POST /api/reservations.  A handler that writes gives the response and   *)
(* the store after it.                                                     *)
(***************************************************************************)
REQUIRED == {"name", "phone", "date", "time", "party_size"}
OPTIONAL == {"occasion", "notes"}
PARTY_SIZE_GE == 1
PARTY_SIZE_LE == 20

\* ReservationCreate without le=20
ReservationCreate_NoUpperBound(body) ==
    /\ REQUIRED \subseteq DOMAIN body
    /\ body.party_size >= PARTY_SIZE_GE

\* The request body parses as a ReservationCreate.
ReservationCreateValid(body) ==
    /\ REQUIRED \subseteq DOMAIN body
    /\ body.party_size >= PARTY_SIZE_GE
    /\ body.party_size <= PARTY_SIZE_LE

\* payload.model_dump(): every field, the optional ones None when not given
model_dump(body) ==
    [k \in REQUIRED \cup OPTIONAL |-> IF k \in DOMAIN body THEN body[k] ELSE None]

\* create_reservation dropping the identifier it was given
create_reservation_DropsId(payload) ==
    LET reservation == ReservationSchema(model_dump(payload))
    IN  IF reservation.raised
        THEN [resp |-> [status |-> 400, detail |-> reservation.error], store |-> store]
        ELSE LET inserted == create_document(reservation.value)
             IN  IF inserted.raised
                 THEN [resp |-> [status |-> 400, detail |-> inserted.error],
                       store |-> inserted.store]
                 ELSE [resp |-> [status |-> 200,
                                 body |-> [status |-> "ok", id |-> PyStr("")]],
                       store |-> inserted.store]

\* create_reservation inserting the document a second time
create_reservation_InsertsTwice(payload) ==
    LET reservation == ReservationSchema(model_dump(payload))
    IN  IF reservation.raised
        THEN [resp |-> [status |-> 400, detail |-> reservation.error], store |-> store]
        ELSE LET inserted == create_document(reservation.value)
             IN  IF inserted.raised
                 THEN [resp |-> [status |-> 400, detail |-> inserted.error],
                       store |-> inserted.store]
                 ELSE [resp |-> [status |-> 200,
                                 body |-> [status |-> "ok", id |-> inserted.value]],
                       store |-> Append(inserted.store,
                                        inserted.store[Len(inserted.store)])]

create_reservation(payload) ==
    LET reservation == ReservationSchema(model_dump(payload))
    IN  IF reservation.raised
        THEN [resp |-> [status |-> 400, detail |-> reservation.error], store |-> store]
        ELSE LET inserted == create_document(reservation.value)
             IN  IF inserted.raised
                 THEN [resp |-> [status |-> 400, detail |-> inserted.error],
                       store |-> inserted.store]
                 ELSE [resp |-> [status |-> 200,
                                 body |-> [status |-> "ok", id |-> inserted.value]],
                       store |-> inserted.store]

\* The route: the framework parses the body as a ReservationCreate and
\* answers 422 itself when that fails; the handler runs only on a parsed body.
post_reservations(body) ==
    IF ReservationCreateValid(body)
    THEN create_reservation(body)
    ELSE [resp |-> [status |-> 422, detail |-> "Unprocessable Entity"], store |-> store]

(***************************************************************************)
(* GET /api/reservations                                                   *)
(***************************************************************************)
DEFAULT_LIMIT == 20

\* ConvertId without str(): d["id"] = d.pop("_id")
ConvertId_NoStr(d) ==
    IF "_id" \in DOMAIN d
    THEN [k \in (DOMAIN d \ {"_id"}) \cup {"id"} |->
             IF k = "id" THEN d["_id"] ELSE d[k]]
    ELSE d

\* if "_id" in d: d["id"] = str(d.pop("_id"))
ConvertId(d) ==
    IF "_id" \in DOMAIN d
    THEN [k \in (DOMAIN d \ {"_id"}) \cup {"id"} |->
             IF k = "id" THEN str(d["_id"]) ELSE d[k]]
    ELSE d

\* list_reservations answering a store failure with 400, as the write path does
list_reservations_400(query) ==
    LET limit == IF "limit" \in DOMAIN query THEN query.limit ELSE DEFAULT_LIMIT
        docs == get_documents(limit)
    IN  IF docs.raised
        THEN [status |-> 400, detail |-> docs.error]
        ELSE [status |-> 200,
              body |-> [items |-> [i \in 1..Len(docs.value) |-> ConvertId(docs.value[i])]]]

list_reservations(query) ==
    LET limit == IF "limit" \in DOMAIN query THEN query.limit ELSE DEFAULT_LIMIT
        docs == get_documents(limit)
    IN  IF docs.raised
        THEN [status |-> 500, detail |-> docs.error]
        ELSE [status |-> 200,
              body |-> [items |-> [i \in 1..Len(docs.value) |-> ConvertId(docs.value[i])]]]

(***************************************************************************)
(* GET / and GET /test.  The status marks of the source ("✅", "❌", "⚠️")  *)
(* are written [ok], [x] and [!].                                          *)
(***************************************************************************)
read_root == [status |-> 200, body |-> [message |-> "Welcome to Étoile Noire Backend"]]

COLLECTIONS_SHOWN == 10
ERROR_SHOWN == 50
DB_NAME == "etoile_noire"

test_database ==
    LET response == [backend |-> "[ok] Running",
                     database |-> "[x] Not Available",
                     database_url |-> None,
                     database_name |-> None,
                     connection_status |-> "Not Connected",
                     collections |-> <<>>]
        connected == [response EXCEPT
                        !.database = "[ok] Available",
                        !.database_url = IF urlSet THEN "[ok] Set" ELSE "[x] Not Set",
                        !.database_name = DB_NAME,
                        !.connection_status = "Connected"]
        listed == list_collection_names
    IN  [status |-> 200,
         body |-> IF db # "none"
                  THEN IF listed.raised
                       THEN [connected EXCEPT
                               !.database = "[!]  Connected but Error: "
                                            \o Prefix(listed.error, ERROR_SHOWN)]
                       ELSE [connected EXCEPT
                               !.collections = Prefix(listed.value, COLLECTIONS_SHOWN),
                               !.database = "[ok] Connected & Working"]
                  ELSE [response EXCEPT !.database = "[!]  Available but not initialized"]]

(***************************************************************************)
(* The requests the clients send.                                          *)
(***************************************************************************)
Restrict(f, S) == [k \in S |-> f[k]]

PartySizes == {0, 1, 20, 21}

FullBodies ==
    [name : {"Ada"}, phone : {"555-0100"}, date : {"2025-06-01"}, time : {"19:30"},
     party_size : PartySizes, occasion : {None, "birthday"}, notes : {None}]

\* the fields a body may leave out
Omissions ==
    {{}, {"name"}, {"phone"}, {"date"}, {"time"}, {"party_size"},
     {"occasion", "notes"}, {"name", "party_size"}}

Bodies == {Restrict(b, DOMAIN b \ o) : b \in FullBodies, o \in Omissions}

Limits == {-1, 0, 1, 2}

\* no query string, or ?limit=N
Queries == {<<>>} \cup {[limit |-> n] : n \in Limits}

Roles == {"user", "assistant", "User"}

SampleTexts == {"wine", "steak", "reserve a table", "hello"}

Messages == [role : Roles, content : SampleTexts]

\* the chat requests sent beside the reservation traffic
SampleChats ==
    {<<>>,
     <<[role |-> "user", content |-> "wine"]>>,
     <<[role |-> "assistant", content |-> "hello"]>>,
     <<[role |-> "user", content |-> "steak"],
       [role |-> "assistant", content |-> "reserve a table"]>>}

\* the words of a text, joined by single spaces, the empty ones left out
RECURSIVE JoinWords(_)
JoinWords(ws) ==
    IF Len(ws) = 0 THEN ""
    ELSE LET rest == JoinWords(SubSeq(ws, 2, Len(ws)))
         IN  IF ws[1] = "" THEN rest
             ELSE IF rest = "" THEN ws[1]
             ELSE ws[1] \o " " \o rest

WineWords == {"", "wine", "Pairing", "SOMMELIER"}
SteakWords == {"", "steak", "Beef", "WAGYU"}
VeganWords == {"", "vegan", "Vegetarian"}
DessertWords == {"", "dessert", "Sweet", "CHOCOLATE"}
BookWords == {"", "book", "Reserve", "TABLE", "reservation"}

\* texts that hold a keyword inside a word, miss one narrowly, or are the
\* examples of the documentation
OtherTexts ==
    {"", "   ", "hello", "Can you suggest a wine pairing?",
     "I'd like to reserve a table", "  steak  ", "win e", "tab le", "stake",
     "bookkeeper", "unsweetened tea", "Tablet", "veganism", "reserv ation",
     "winewagyuvegansweetbook", "beefsteak and chocolate dessert"}

Texts ==
    {JoinWords(<<w, s, v, d, b>>) :
        w \in WineWords, s \in SteakWords, v \in VeganWords,
        d \in DessertWords, b \in BookWords}
    \cup {JoinWords(<<b, d, v, s, w>>) :
        w \in WineWords, s \in SteakWords, v \in VeganWords,
        d \in DessertWords, b \in BookWords}
    \cup OtherTexts

\* every list of at most MaxMsgs messages, and every text as one user message
ChatRequests ==
    UNION {[1..n -> Messages] : n \in 0..MaxMsgs}
    \cup {<<[role |-> "user", content |-> t]>> : t \in Texts}

(***************************************************************************)
(* The state machine: a client sends a request when none is outstanding,   *)
(* the handler answers it in one step, the client takes the response.      *)
(* Each handler calls the store at most once, so handlers running side by  *)
(* side act on the store in the order of those calls.                      *)
(***************************************************************************)
Idle == [endpoint |-> "idle"]
NoResponse == [status |-> 0]

Init ==
    /\ store = <<>>
    /\ db \in {"none", "handle"}
    /\ storeUp \in BOOLEAN
    /\ urlSet \in BOOLEAN
    /\ others \in {0, MaxOthers - 2, MaxOthers}
    /\ req = Idle
    /\ resp = NoResponse

PostReservations(body) ==
    /\ req = Idle
    /\ Len(store) < MaxDocs
    /\ LET r == post_reservations(body)
       IN  /\ resp' = r.resp
           /\ store' = r.store
    /\ req' = [endpoint |-> "POST /api/reservations", body |-> body]
    /\ UNCHANGED <<db, storeUp, urlSet, others>>

GetReservations(query) ==
    /\ req = Idle
    /\ resp' = list_reservations(query)
    /\ req' = [endpoint |-> "GET /api/reservations", query |-> query]
    /\ UNCHANGED <<store, db, storeUp, urlSet, others>>

GetRoot ==
    /\ req = Idle
    /\ resp' = read_root
    /\ req' = [endpoint |-> "GET /"]
    /\ UNCHANGED <<store, db, storeUp, urlSet, others>>

GetTest ==
    /\ req = Idle
    /\ resp' = test_database
    /\ req' = [endpoint |-> "GET /test"]
    /\ UNCHANGED <<store, db, storeUp, urlSet, others>>

PostChat(messages) ==
    /\ req = Idle
    /\ resp' = chat_endpoint(messages)
    /\ req' = [endpoint |-> "POST /api/chat", messages |-> messages]
    /\ UNCHANGED <<store, db, storeUp, urlSet, others>>

\* the client takes the response
Deliver ==
    /\ req # Idle
    /\ req' = Idle
    /\ resp' = NoResponse
    /\ UNCHANGED <<store, db, storeUp, urlSet, others>>

\* the store server stops answering, or answers again
Outage ==
    /\ storeUp
    /\ storeUp' = FALSE
    /\ UNCHANGED <<store, db, urlSet, others, req, resp>>

Recover ==
    /\ ~storeUp
    /\ storeUp' = TRUE
    /\ UNCHANGED <<store, db, urlSet, others, req, resp>>

PostAnyReservation == \E body \in Bodies : PostReservations(body)
GetAnyReservations == \E query \in Queries : GetReservations(query)
PostSampleChat == \E messages \in SampleChats : PostChat(messages)
PostAnyChat == \E messages \in ChatRequests : PostChat(messages)

Next ==
    \/ PostAnyReservation
    \/ GetAnyReservations
    \/ GetRoot
    \/ GetTest
    \/ PostSampleChat
    \/ Deliver
    \/ Outage
    \/ Recover

Spec == Init /\ [][Next]_vars

\* the chat endpoint alone, over every chat request
ChatNext ==
    \/ PostAnyChat
    \/ Deliver

\* The chat endpoint reads nothing of the store: one deployment is enough.
ChatInit ==
    /\ store = <<>>
    /\ db = "handle"
    /\ storeUp = TRUE
    /\ urlSet = TRUE
    /\ others = 0
    /\ req = Idle
    /\ resp = NoResponse

ChatSpec == ChatInit /\ [][ChatNext]_vars

(***************************************************************************)
(* Vocabulary of the properties.                                           *)
(***************************************************************************)
\* a step in which the handler of endpoint e answers a request
Handled(e) == req = Idle /\ req'.endpoint = e

POST_RESERVATIONS == "POST /api/reservations"
GET_RESERVATIONS == "GET /api/reservations"
POST_CHAT == "POST /api/chat"

\* every required field is present
HasRequired(body) ==
    {"name", "phone", "date", "time", "party_size"} \subseteq DOMAIN body

\* a valid reservation payload
IsValidPayload(body) ==
    HasRequired(body) /\ body.party_size \in 1..20

\* the store takes an insert or a query
StoreWorks == db = "handle" /\ storeUp

\* field k of a stored document as the payload gave it (None when left out)
Given(body, k) == IF k \in DOMAIN body THEN body[k] ELSE None

C2_CreatedId ==
    [][(Handled(POST_RESERVATIONS) /\ IsValidPayload(req'.body) /\ StoreWorks)
        => /\ resp'.status = 200
           /\ resp'.body.status = "ok"
           /\ DOMAIN resp'.body = {"status", "id"}
           /\ resp'.body.id.type = "str"
           /\ Len(resp'.body.id.value) > 0
           /\ Len(store') = Len(store) + 1
           /\ resp'.body.id = str(store'[Len(store')]["_id"])]_vars

C2_Witness ==
    /\ req.endpoint = POST_RESERVATIONS
    /\ IsValidPayload(req.body)
    /\ req.body.party_size = 20
    /\ "occasion" \notin DOMAIN req.body
    /\ resp.status = 200
    /\ Len(store) = 2
    /\ resp.body.id = str(store[2]["_id"])

\* the limit a listing request asks for
LimitOf(query) == IF "limit" \in DOMAIN query THEN query.limit ELSE 20

\* every listed item has a string id and no raw _id
ItemsHaveStringIds(items) ==
    \A i \in 1..Len(items) :
        /\ "id" \in DOMAIN items[i]
        /\ "_id" \notin DOMAIN items[i]
        /\ items[i]["id"].type = "str"

C4_StoreFrame ==
    [][IF Handled(POST_RESERVATIONS) /\ resp'.status = 200
       THEN /\ Len(store') = Len(store) + 1
            /\ SubSeq(store', 1, Len(store)) = store
            /\ LET doc == store'[Len(store')]
               IN  /\ DOMAIN doc = {"_id", "name", "phone", "date", "time",
                                     "party_size", "occasion", "notes"}
                   /\ \A k \in DOMAIN doc \ {"_id"} : doc[k] = Given(req'.body, k)
                   /\ \A i \in 1..Len(store) : store[i]["_id"] # doc["_id"]
       ELSE store' = store]_vars

C4_Witness ==
    /\ req.endpoint = GET_RESERVATIONS
    /\ resp.status = 200
    /\ Len(resp.body.items) = 2
    /\ Len(store) = 2
    /\ store[1]["_id"] # store[2]["_id"]
    /\ store[1].occasion = "birthday"

\* C5: when the store fails, a creation is answered 400 and a listing 500,
\* each with the failure's text; GET /test is answered 200 in every store
\* state, with a status other than "working" and no collections when the
\* store fails and with the first 10 collection names when it works.
C5_StoreFailure ==
    [][/\ (Handled(POST_RESERVATIONS) /\ IsValidPayload(req'.body) /\ ~StoreWorks)
            => (resp'.status = 400 /\ resp'.detail = StoreError)
       /\ (Handled(GET_RESERVATIONS) /\ ~StoreWorks)
            => (resp'.status = 500 /\ resp'.detail = StoreError)
       /\ Handled("GET /test")
            => /\ resp'.status = 200
               /\ IF StoreWorks
                  THEN LET names == list_collection_names.value
                       IN  /\ Len(resp'.body.collections)
                                = (IF Len(names) < 10 THEN Len(names) ELSE 10)
                           /\ \A i \in 1..Len(resp'.body.collections) :
                                  resp'.body.collections[i] = names[i]
                  ELSE /\ resp'.body.collections = <<>>
                       /\ resp'.body.database # "[ok] Connected & Working"]_vars

C5_Witness ==
    /\ req.endpoint = GET_RESERVATIONS
    /\ resp.status = 500
    /\ db = "handle"
    /\ ~storeUp
    /\ Len(store) = 1

(***************************************************************************)
(* Vocabulary of the chat properties.                                      *)
(***************************************************************************)
\* the positions of the messages whose role is "user"
UserPositions(messages) == {i \in 1..Len(messages) : messages[i].role = "user"}

\* the position whose content the endpoint answers: the last user message,
\* or the last message when no message is a user's
AnsweredPosition(messages) ==
    IF UserPositions(messages) = {}
    THEN Len(messages)
    ELSE CHOOSE i \in UserPositions(messages) :
             \A j \in UserPositions(messages) : j <= i

\* the request is one user message: its content is the responder's input
OneUserText ==
    /\ req.endpoint = POST_CHAT
    /\ Len(req.messages) = 1
    /\ req.messages[1].role = "user"

\* the lower-cased text has one of the keywords as a substring
Mentions(text, keywords) ==
    LET t == Lower(text) IN \E k \in keywords : Contains(t, k)

WineGroup == {"wine", "pairing", "sommelier"}
SteakGroup == {"steak", "beef", "wagyu"}
VeganGroup == {"vegan", "vegetarian"}
DessertGroup == {"dessert", "sweet", "chocolate"}
BookingGroup == {"book", "reserve", "table", "reservation"}

BookingSentence == "I can book a table for you. Please share date, time, and party size."

EndsWith(s, tail) ==
    Len(tail) <= Len(s) /\ SubSeq(s, Len(s) - Len(tail) + 1, Len(s)) = tail

\* the suggestions the menu groups give for a text, in the group order
MenuSuggestions(text) ==
    (IF Mentions(text, WineGroup)
     THEN <<"Grand Cru Burgundy 2015", "Vintage Champagne Brut 2008">> ELSE <<>>)
    \o (IF Mentions(text, SteakGroup)
        THEN <<"A5 Miyazaki Wagyu with black truffle jus">> ELSE <<>>)
    \o (IF Mentions(text, VeganGroup)
        THEN <<"Charred Romanesco with almond velouté">> ELSE <<>>)
    \o (IF Mentions(text, DessertGroup)
        THEN <<"72% Dark Chocolate Marquis with gold leaf">> ELSE <<>>)

\* how many of the four menu groups a text matches
MenuMatches(text) ==
    Cardinality({g \in {WineGroup, SteakGroup, VeganGroup, DessertGroup} :
                    Mentions(text, g)})

\* the sentences of the matched groups, in the group order, without the
\* space the source writes before all but the first
MatchedSentences(text) ==
    <<IF Mentions(text, WineGroup) THEN WINE_REPLY ELSE "",
      IF Mentions(text, SteakGroup) THEN LStrip(STEAK_FRAGMENT) ELSE "",
      IF Mentions(text, VeganGroup) THEN LStrip(VEGAN_FRAGMENT) ELSE "",
      IF Mentions(text, DessertGroup) THEN LStrip(DESSERT_FRAGMENT) ELSE "",
      IF Mentions(text, BookingGroup) THEN BookingSentence ELSE "">>

\* C6: an empty message list is answered 400 with no responder output; any
\* other list is answered with the responder's output for the content of
\* the last message whose role is exactly "user", or of the last message
\* when there is none.
C6_InputSelection ==
    req.endpoint = POST_CHAT
    => IF Len(req.messages) = 0
       THEN resp.status = 400 /\ "body" \notin DOMAIN resp
       ELSE /\ resp.status = 200
            /\ resp.body =
                 simple_recommender(req.messages[AnsweredPosition(req.messages)].content)

C6_Witness ==
    /\ req.endpoint = POST_CHAT
    /\ Len(req.messages) = 2
    /\ req.messages[1] = [role |-> "user", content |-> "wine"]
    /\ req.messages[2] = [role |-> "assistant", content |-> "steak"]
    /\ resp.status = 200
    /\ resp.body.reply = WINE_REPLY

\* C7: the reply holds the booking sentence exactly when the lower-cased
\* text holds book, reserve, table or reservation, whatever menu groups
\* match; the sentence then ends the reply, and the suggestions are those of
\* the menu groups alone.
C7_BookingSentence ==
    OneUserText
    => LET text == req.messages[1].content
           booked == Mentions(text, BookingGroup)
       IN  /\ Contains(resp.body.reply, BookingSentence) <=> booked
           /\ booked => EndsWith(resp.body.reply, BookingSentence)
           /\ Len(resp.body.suggestions) = Len(MenuSuggestions(text))
           /\ \A i \in 1..Len(resp.body.suggestions) :
                  resp.body.suggestions[i] = MenuSuggestions(text)[i]

C7_Witness ==
    /\ OneUserText
    /\ Mentions(req.messages[1].content, BookingGroup)
    /\ Mentions(req.messages[1].content, WineGroup)
    /\ Mentions(req.messages[1].content, DessertGroup)
    /\ EndsWith(resp.body.reply, BookingSentence)
    /\ Len(resp.body.suggestions) = 3

\* no group of the five matches the text
NoGroup(text) ==
    \A g \in {WineGroup, SteakGroup, VeganGroup, DessertGroup, BookingGroup} :
        ~Mentions(text, g)

\* C8: a text matching no group is answered with exactly the default
\* sentence, no suggestions and a null maybe_reservation; the default
\* sentence is the reply only then; and no reply is the empty string.
C8_DefaultReply ==
    OneUserText
    => LET text == req.messages[1].content
       IN  /\ NoGroup(text)
                => /\ resp.body.reply = DEFAULT_REPLY
                   /\ resp.body.suggestions = <<>>
                   /\ resp.body.maybe_reservation = None
           /\ resp.body.reply = DEFAULT_REPLY => NoGroup(text)
           /\ resp.body.reply # ""

C8_Witness ==
    /\ OneUserText
    /\ req.messages[1].content = "tab le"
    /\ resp.body.reply = DEFAULT_REPLY
    /\ resp.body.suggestions = <<>>

\* C9: when some group matches, the reply is the sentences of the matched
\* groups in the order wine, steak, vegan, dessert, booking, one space
\* between two of them, with no whitespace before the first or after the last.
C9_JoinedFragments ==
    (OneUserText /\ ~NoGroup(req.messages[1].content))
    => /\ resp.body.reply = JoinWords(MatchedSentences(req.messages[1].content))
       /\ Strip(resp.body.reply) = resp.body.reply

\* C10, as stated: the suggestions are one per matched menu group, in the
\* group order, and a text matching the wine group gets "Grand Cru Burgundy
\* 2015".
C10_OnePerGroup ==
    OneUserText
    => LET text == req.messages[1].content
       IN  /\ Len(resp.body.suggestions) = MenuMatches(text)
           /\ Mentions(text, WineGroup)
                => \E i \in 1..Len(resp.body.suggestions) :
                       resp.body.suggestions[i] = "Grand Cru Burgundy 2015"

\* C10, amended: the suggestions are, in the group order, the two
\* suggestions of the wine group ("Grand Cru Burgundy 2015", then "Vintage
\* Champagne Brut 2008") when it matches and the one suggestion of each other
\* matched menu group; an unmatched group adds none.  The list has one entry
\* per matched menu group, and one more when the wine group matches.
C10_SuggestionsPerGroup ==
    OneUserText
    => LET text == req.messages[1].content
       IN  /\ resp.body.suggestions = MenuSuggestions(text)
           /\ Len(resp.body.suggestions)
                = MenuMatches(text) + (IF Mentions(text, WineGroup) THEN 1 ELSE 0)
           /\ Mentions(text, WineGroup)
                => resp.body.suggestions[1] = "Grand Cru Burgundy 2015"

C10_Witness ==
    /\ OneUserText
    /\ Mentions(req.messages[1].content, WineGroup)
    /\ Mentions(req.messages[1].content, VeganGroup)
    /\ ~Mentions(req.messages[1].content, SteakGroup)
    /\ resp.body.suggestions = <<"Grand Cru Burgundy 2015",
                                 "Vintage Champagne Brut 2008",
                                 "Charred Romanesco with almond velouté">>

====
